---------------------------- MODULE Spec2Model ----------------------------
(***************************************************************************)
(* A model of finviz.screener.Screener (src/finviz/screener.py): the query *)
(* held by a session, its construction and its mutation by __call__/add,   *)
(* and the resolve of a query (__search_screener): first-page request,     *)
(* row-cap check, header extraction, page plan, the fan-out of page        *)
(* workers through the Connector and the concatenation of their results.   *)
(*                                                                         *)
(* The remote screener, http_request, Connector, scrape.get_total_rows and *)
(* scrape.get_page_urls are not part of screener.py; they are modelled     *)
(* from the specification (sections 4.2, 4.3 and 6).                       *)
(***************************************************************************)
EXTENDS Integers, Sequences, FiniteSets, TLC

(***************************************************************************)
(* Bounds of the model.                                                    *)
(***************************************************************************)
\* The largest total_rows the remote source reports for a query.
MaxTotal == 5
\* Rows on one page of the remote source (scaled down; see spec section 9).
RowsPerPage == 2
\* Operations (one constructor call and the __call__/add calls) per session.
MaxOps == 2

(***************************************************************************)
(* Python values.                                                          *)
(***************************************************************************)
\* rows=None. A row cap that is present is a positive integer, so 0 is free
\* to stand for None (`if rows:` treats None and 0 alike).
None == 0
\* element.text of an element that has no direct text.
NoText == "<no text>"
\* A falsy table argument of __call__ (None or ''): no table supplied.
NoTable == ""

Min(a, b) == IF a <= b THEN a ELSE b

\* ','.join(items)
RECURSIVE join(_)
join(items) ==
    IF items = <<>> THEN ""
    ELSE IF Len(items) = 1 THEN items[1]
    ELSE items[1] \o "," \o join(Tail(items))

\* int(text) of the text of a serial-number cell
int(text) == CHOOSE i \in 0..(MaxTotal + RowsPerPage + 1) : ToString(i) = text

\* The loop of lines 272-275: the rows of the pages, page after page.
RECURSIVE Flatten(_)
Flatten(pages_data) ==
    IF pages_data = <<>> THEN <<>>
    ELSE Head(pages_data) \o Flatten(Tail(pages_data))

(***************************************************************************)
(* The table enumeration (lines 46-54) and its check (lines 196-203).      *)
(***************************************************************************)
_table_types ==
    [Overview |-> "110", Valuation |-> "120", Ownership |-> "130",
     Performance |-> "140", Custom |-> "150", Financial |-> "160",
     Technical |-> "170"]

TableNames == DOMAIN _table_types

\* __check_table: the wire code, or the raise of InvalidTableType(input).
\* [ok |-> TRUE, table |-> code] or [ok |-> FALSE, error |-> exception].
InvalidTableType(input_table) == [kind |-> "InvalidTableType", arg |-> input_table]

\* Variant: an unknown name is passed through instead of being rejected.
check_table_unchecked(input_table) ==
    [ok |-> TRUE,
     table |-> IF input_table \in DOMAIN _table_types
               THEN _table_types[input_table] ELSE input_table]

check_table(input_table) ==
    IF input_table \in DOMAIN _table_types
    THEN [ok |-> TRUE, table |-> _table_types[input_table]]
    ELSE [ok |-> FALSE, error |-> InvalidTableType(input_table)]

(***************************************************************************)
(* The remote source (spec section 6).  A request is the payload of        *)
(* http_request (lines 256-262) and a row offset; the answer is a page: a  *)
(* total-row indicator, one header row and the data rows of that page.     *)
(***************************************************************************)
\* url.split('?')[1] of the url http_request returns: the query string.
QueryString(q) ==
    "v=" \o q.v \o "&t=" \o q.t \o "&f=" \o q.f \o "&o=" \o q.o \o "&s=" \o q.s

NoResults(q) == [kind |-> "NoResults", arg |-> QueryString(q)]

\* The rows a query selects depend on its tickers, filters and signal.
DatasetKey(q) == <<q.t, q.f, q.s>>

\* Markup of a cell: direct text, or none and nested <span>/<img> elements.
TextCell(t) == [text |-> t, span |-> <<>>, img |-> <<>>]
SpanCell(t) == [text |-> NoText, span |-> <<t>>, img |-> <<>>]
ImgCell(t) == [text |-> NoText, span |-> <<>>, img |-> << <<"<img src=sort.gif", t>> >>]
EmptyCell == [text |-> NoText, span |-> <<>>, img |-> <<>>]

\* The column a view adds to the leading "No." and "Ticker" columns; a `v`
\* that is no wire code gets the remote's default view.
ViewColumn(v) ==
    CASE v = "120" -> "P/E"
      [] v = "130" -> "Outstanding"
      [] v = "140" -> "Perf Week"
      [] v = "150" -> "Custom"
      [] v = "160" -> "Dividend"
      [] v = "170" -> "Beta"
      [] OTHER -> "Company"

\* The header row; the column the table is ordered by is rendered as an icon.
HeaderRow(q) ==
    << TextCell("No."),
       IF q.o = "" THEN TextCell("Ticker") ELSE ImgCell("Ticker"),
       TextCell(ViewColumn(q.v)) >>

\* The anchors of data row i.  Every cell value names the request it answers.
\* mk is the markup defect of the dataset's last row: "none", or "empty" (a
\* cell with neither text nor span).
DataRow(q, i, n, mk) ==
    LET val == QueryString(q) \o "#" \o ToString(i)
        c1 == TextCell(ToString(i))
        c2 == TextCell("T" \o ToString(i))
        c3 == IF i % 2 = 0 THEN SpanCell(val) ELSE TextCell(val)
    IN  IF i = n /\ mk = "empty" THEN <<c1, c2, EmptyCell>>
        ELSE <<c1, c2, c3>>

\* The page at row offset r (1-based serial of its first row) of a dataset of
\* n rows.  trs lists the tr[valign="top"] elements: a leading one that holds
\* no data row, then the data rows.
RemotePage(q, r, n, mk) ==
    LET first == IF r = 0 THEN 1 ELSE r
        last == Min(first + RowsPerPage - 1, n)
    IN  [total |-> n,
         head |-> HeaderRow(q),
         trs |-> << <<>> >> \o [j \in 1..(IF last >= first THEN last - first + 1 ELSE 0)
                                  |-> DataRow(q, first + j - 1, n, mk)]]


(***************************************************************************)
(* scrape.get_total_rows and scrape.get_page_urls (spec section 4.2).      *)
(***************************************************************************)
get_total_rows(page_content) == page_content.total

\* One descriptor per page needed to cover `rows` rows, the first page
\* included; descriptor i carries the offset 1 + (i - 1) * RowsPerPage.
get_page_urls(page_content, rows, url) ==
    [i \in 1..((rows + RowsPerPage - 1) \div RowsPerPage)
        |-> [q |-> url, r |-> 1 + (i - 1) * RowsPerPage]]

(***************************************************************************)
(* The Table Parser: lines 205-251.                                        *)
(***************************************************************************)
\* __get_table_headers: the text of each header cell, or the text that
\* follows its <img/> (tostring(img).split('/>')[1]).
get_table_headers(page_content) ==
    LET first_row == page_content.head
    IN  [c \in 1..Len(first_row) |->
            IF first_row[c].text = NoText
            THEN first_row[c].img[1][2]
            ELSE first_row[c].text]

\* scrape_row: the text of each anchor, or of its first <span>; the lookup
\* [...][0] of a cell that has neither raises IndexError.
RECURSIVE scrape_row(_)
scrape_row(line) ==
    IF line = <<>> THEN [ok |-> TRUE, row_data |-> <<>>]
    ELSE LET tags == Head(line)
             rest == scrape_row(Tail(line))
         IN  IF tags.text # NoText
             THEN IF rest.ok
                  THEN [ok |-> TRUE, row_data |-> <<tags.text>> \o rest.row_data]
                  ELSE rest
             ELSE IF tags.span = <<>>
             THEN [ok |-> FALSE, error |-> [kind |-> "IndexError", arg |-> ""]]
             ELSE IF rest.ok
                  THEN [ok |-> TRUE, row_data |-> <<tags.span[1]>> \o rest.row_data]
                  ELSE rest

\* d[k] = v on an insertion-ordered dict, kept as a sequence of <<key, value>>.
dict_set(d, k, v) ==
    IF \E i \in 1..Len(d) : d[i][1] = k
    THEN [i \in 1..Len(d) |-> IF d[i][1] = k THEN <<k, v>> ELSE d[i]]
    ELSE Append(d, <<k, v>>)

\* dict(zip(keys, vals)): pairs up to the shorter of the two.
RECURSIVE zip_from(_, _, _, _)
zip_from(keys, vals, i, d) ==
    IF i > Min(Len(keys), Len(vals)) THEN d
    ELSE zip_from(keys, vals, i + 1, dict_set(d, keys[i], vals[i]))

\* Variant: the two arguments of zip swapped.
dict_zip_swapped(keys, vals) == zip_from(vals, keys, 1, <<>>)

dict_zip(keys, vals) == zip_from(keys, vals, 1, <<>>)

\* list(record.keys())
Keys(record) == [i \in 1..Len(record) |-> record[i][1]]

\* Variant: no row ends the page early.
never_last_row(row, _rows) == FALSE

\* line 242: the row whose serial number equals self._rows ends the page.
is_last_row(row, _rows) == int(row[1].text) = _rows

\* The loop of lines 240-249 over the rows left, data_sets being the records
\* collected so far.
RECURSIVE table_rows(_, _, _, _)
table_rows(all_rows, headers, _rows, data_sets) ==
    IF all_rows = <<>> THEN [ok |-> TRUE, data_sets |-> data_sets]
    ELSE LET row == Head(all_rows)
             last == is_last_row(row, _rows)
             scraped == scrape_row(row)
         IN  IF ~scraped.ok THEN scraped
             ELSE LET values == dict_zip(headers, scraped.row_data)
                  IN  IF last
                      THEN [ok |-> TRUE, data_sets |-> Append(data_sets, values)]
                      ELSE table_rows(Tail(all_rows), headers, _rows,
                                      Append(data_sets, values))

\* __get_table_data(page): the records of one page, read with the session's
\* headers and row cap; [1:] drops the leading tr.
get_table_data(page, headers, _rows) ==
    table_rows(Tail(page.trs), headers, _rows, <<>>)

\* Variant: without the check for an empty result.
check_rows_unchecked(_rows, _total_rows, _url) ==
    IF _rows = None \/ _rows > _total_rows THEN [ok |-> TRUE, rows |-> _total_rows]
    ELSE [ok |-> TRUE, rows |-> _rows]

\* __check_rows (lines 189-194): the effective row cap, or the raise of
\* NoResults(self._url.split('?')[1]).
check_rows(_rows, _total_rows, _url) ==
    IF _total_rows = 0 THEN [ok |-> FALSE, error |-> NoResults(_url)]
    ELSE IF _rows = None \/ _rows > _total_rows THEN [ok |-> TRUE, rows |-> _total_rows]
    ELSE [ok |-> TRUE, rows |-> _rows]

(***************************************************************************)
(* State.                                                                  *)
(***************************************************************************)
VARIABLES
    self,        \* self[s]: the attributes of Screener object s
    heap,        \* heap[id]: the items of list object id (lists are shared by reference)
    phase,       \* phase[s]: "absent", "ready", or inside run_connector()
    page_urls,   \* the page descriptors handed to the Connector
    pages_data,  \* the Connector's position-indexed output buffer
    source,      \* the remote dataset: total_rows of every query asked so far
    markup,      \* the markup defect of the remote dataset's last row
    outcome,     \* outcome[s]: how the latest operation on s ended
    fetches,     \* fetches[s]: the first-page request of the latest operation on s
                 \* and the number of pages it fetched
    reordered,   \* whether a worker of the latest fan-out completed before an earlier one
    last,        \* last[s]: the latest operation on s, its arguments, the state before
                 \* it, and the row cap the caller has asked for so far
    ops          \* ops[s]: operations started on s

vars == <<self, heap, phase, page_urls, pages_data, source, markup, outcome,
          fetches, reordered, last, ops>>

Sessions == {1, 2}

\* The caller's own ticker and filter lists, passed to constructors by reference.
CallerTickers == "caller_tickers"
CallerFilters == "caller_filters"
\* tickers=None / filters=None
NoList == "None"
\* The list `[]` that __init__ creates for session s (lines 37, 42).
OwnTickers(s) == "tickers_" \o ToString(s)
OwnFilters(s) == "filters_" \o ToString(s)
ListIds ==
    {CallerTickers, CallerFilters} \cup {OwnTickers(s) : s \in Sessions}
        \cup {OwnFilters(s) : s \in Sessions}

\* A slot of the Connector's output buffer.
Pending == [done |-> FALSE, data_sets |-> <<>>]
Done(data_sets) == [done |-> TRUE, data_sets |-> data_sets]

NoUrl == [v |-> "", t |-> "", f |-> "", o |-> "", s |-> ""]

NoFetch == [first |-> NoUrl, count |-> 0]

\* The attributes of an object that does not exist (yet).
NoObject ==
    [_tickers |-> NoList, _filters |-> NoList, _table |-> "", _rows |-> None,
     _order |-> "", _signal |-> "", _total_rows |-> 0, _url |-> NoUrl,
     headers |-> <<>>, data |-> <<>>]

NoArgs ==
    [tickers |-> <<>>, filters |-> <<>>, rows |-> None, order |-> "",
     signal |-> "", table |-> NoTable]

NoOutcome == [kind |-> "none", arg |-> ""]
Ok == [kind |-> "ok", arg |-> ""]
Running == [kind |-> "running", arg |-> ""]

\* What last[s] keeps of the state before an operation.
Before(s) ==
    [self |-> self[s],
     tickers |-> IF self[s]._tickers = NoList THEN <<>> ELSE heap[self[s]._tickers],
     filters |-> IF self[s]._filters = NoList THEN <<>> ELSE heap[self[s]._filters],
     ok |-> outcome[s] = Ok]

Init ==
    /\ self = [s \in Sessions |-> NoObject]
    /\ heap = [id \in ListIds |->
                 IF id = CallerTickers THEN <<"AAPL">>
                 ELSE IF id = CallerFilters THEN <<"cap_large">>
                 ELSE <<>>]
    /\ phase = [s \in Sessions |-> "absent"]
    /\ page_urls = <<>>
    /\ pages_data = <<>>
    /\ source = <<>>
    /\ markup \in {"none", "empty"}
    /\ outcome = [s \in Sessions |-> NoOutcome]
    /\ fetches = [s \in Sessions |-> NoFetch]
    /\ reordered = FALSE
    /\ last = [s \in Sessions |-> [op |-> "none", args |-> NoArgs, before |-> Before(s),
                                    requested |-> None]]
    /\ ops = [s \in Sessions |-> 0]

\* The caller is single-threaded: no operation starts while run_connector()
\* of another is running.
Idle == \A s \in Sessions : phase[s] \in {"absent", "ready"}

TotalOf(q) == source[DatasetKey(q)]

(***************************************************************************)
(* __search_screener up to the dispatch of the page workers: lines 256-269.*)
(* me: the attributes on entry; h: the heap on entry; op: "init" or        *)
(* "call".  An exception leaves a constructed object as it is at the raise *)
(* and leaves no object when it escapes __init__.                          *)
(***************************************************************************)
Raise(s, me, op, error) ==
    /\ self' = [self EXCEPT ![s] = IF op = "init" THEN NoObject ELSE me]
    /\ phase' = [phase EXCEPT ![s] = IF op = "init" THEN "absent" ELSE "ready"]
    /\ outcome' = [outcome EXCEPT ![s] = error]
    /\ page_urls' = <<>>
    /\ pages_data' = <<>>

search_screener(s, me, h, op) ==
    LET url == [v |-> me._table, t |-> join(h[me._tickers]),
                f |-> join(h[me._filters]), o |-> me._order, s |-> me._signal]
        key == DatasetKey(url)
    IN  \E n \in 0..MaxTotal :
          /\ key \in DOMAIN source => n = source[key]
          /\ source' = IF key \in DOMAIN source THEN source ELSE (key :> n) @@ source
          /\ fetches' = [fetches EXCEPT ![s] = [first |-> url, count |-> 1]]
          /\ reordered' = FALSE
          /\ LET page_content == RemotePage(url, 0, n, markup)
                 _total_rows == get_total_rows(page_content)
                 fetched == [me EXCEPT !._url = url, !._total_rows = _total_rows]
                 checked == check_rows(me._rows, _total_rows, url)
             IN  IF ~checked.ok
                 THEN Raise(s, fetched, op, checked.error)
                 ELSE LET _rows == checked.rows
                          headers == get_table_headers(page_content)
                          urls == get_page_urls(page_content, _rows, url)
                      IN  /\ self' = [self EXCEPT ![s] =
                                        [fetched EXCEPT !._rows = _rows,
                                                        !.headers = headers]]
                          /\ phase' = [phase EXCEPT ![s] = op]
                          /\ outcome' = [outcome EXCEPT ![s] = Running]
                          /\ page_urls' = urls
                          /\ pages_data' = [i \in 1..Len(urls) |-> Pending]

(***************************************************************************)
(* Screener.__init__: lines 36-65.                                         *)
(***************************************************************************)
Construct(s, a) ==
    /\ Idle
    /\ phase[s] = "absent"
    /\ ops[s] < MaxOps
    /\ ops' = [ops EXCEPT ![s] = @ + 1]
    /\ last' = [last EXCEPT ![s] = [op |-> "init", args |-> a, before |-> Before(s),
                                       requested |-> a.rows]]
    /\ LET _tickers == IF a.tickers = NoList THEN OwnTickers(s) ELSE a.tickers
           _filters == IF a.filters = NoList THEN OwnFilters(s) ELSE a.filters
           h == [heap EXCEPT ![OwnTickers(s)] = IF a.tickers = NoList THEN <<>> ELSE @,
                             ![OwnFilters(s)] = IF a.filters = NoList THEN <<>> ELSE @]
           checked == IF a.table # "Overview"
                      THEN check_table(a.table)
                      ELSE [ok |-> TRUE, table |-> a.table]
       IN  /\ heap' = h
           /\ IF ~checked.ok
              THEN /\ Raise(s, NoObject, "init", checked.error)
                   /\ fetches' = [fetches EXCEPT ![s] = NoFetch]
                   /\ reordered' = FALSE
                   /\ UNCHANGED source
              ELSE search_screener(s,
                       [NoObject EXCEPT !._tickers = _tickers, !._filters = _filters,
                                        !._table = checked.table, !._rows = a.rows,
                                        !._order = a.order, !._signal = a.signal],
                       h, "init")
    /\ UNCHANGED markup

(***************************************************************************)
(* Screener.__call__ / add: lines 78-96.                                   *)
(***************************************************************************)
\* [lst.append(item) for item in items], on the list object itself
extend(lst, items) == lst \o items

\* Variant: the assignment without its `if`.
overwrite_always(field, value, absent) == value

\* `if value: self._field = value` (lines 87-94)
overwrite(field, value, absent) == IF value # absent THEN value ELSE field

Call(s, a) ==
    /\ Idle
    /\ phase[s] = "ready"
    /\ ops[s] < MaxOps
    /\ ops' = [ops EXCEPT ![s] = @ + 1]
    /\ last' = [last EXCEPT ![s] = [op |-> "call", args |-> a, before |-> Before(s),
                                       requested |-> overwrite(@.requested, a.rows, None)]]
    /\ LET me == self[s]
           h1 == [heap EXCEPT ![me._tickers] = extend(@, a.tickers)]
           h == [h1 EXCEPT ![me._filters] = extend(@, a.filters)]
           checked == IF a.table # NoTable
                      THEN check_table(a.table)
                      ELSE [ok |-> TRUE, table |-> me._table]
       IN  /\ heap' = h
           /\ IF ~checked.ok
              THEN /\ Raise(s, me, "call", checked.error)
                   /\ fetches' = [fetches EXCEPT ![s] = NoFetch]
                   /\ reordered' = FALSE
                   /\ UNCHANGED source
              ELSE search_screener(s,
                       [me EXCEPT !._table = checked.table,
                                  !._order = overwrite(@, a.order, ""),
                                  !._signal = overwrite(@, a.signal, ""),
                                  !._rows = overwrite(@, a.rows, None)],
                       h, "call")
    /\ UNCHANGED markup

(***************************************************************************)
(* The Connector (spec section 4.3) running __get_table_data over the page *)
(* descriptors: each worker fetches its page and parses it; the result     *)
(* goes to the slot of the descriptor's position.                          *)
(***************************************************************************)
InFanOut(s) == phase[s] \in {"init", "call"}

\* Variant: results are appended in completion order.
store_next_free(buffer, i, data_sets) ==
    LET free == CHOOSE j \in 1..Len(buffer) :
                    ~buffer[j].done /\ \A k \in 1..(j - 1) : buffer[k].done
    IN  [buffer EXCEPT ![free] = Done(data_sets)]

store(buffer, i, data_sets) == [buffer EXCEPT ![i] = Done(data_sets)]

\* run_connector() returns the buffer once every slot is filled.
gathered(buffer) == [i \in 1..Len(buffer) |-> buffer[i].data_sets]

\* Variant: the worker appends its records to the session's data itself.
append_to_data(me, data_sets) == [me EXCEPT !.data = @ \o data_sets]

\* The attributes of self after __get_table_data has run: it collects the
\* records in its local `data_sets` (line 236) and returns them (line 251); it
\* assigns no attribute.
after_get_table_data(me, data_sets) == me

\* The worker of descriptor i completes: its page is fetched and parsed.
Worker(s, i) ==
    /\ InFanOut(s)
    /\ i \in 1..Len(page_urls)
    /\ ~pages_data[i].done
    /\ LET url == page_urls[i]
           page == RemotePage(url.q, url.r, TotalOf(url.q), markup)
           parsed == get_table_data(page, self[s].headers, self[s]._rows)
       IN  /\ fetches' = [fetches EXCEPT ![s].count = @ + 1]
           /\ reordered' = (reordered \/ \E j \in 1..(i - 1) : ~pages_data[j].done)
           /\ IF parsed.ok
              THEN /\ pages_data' = store(pages_data, i, parsed.data_sets)
                   /\ self' = [self EXCEPT ![s] =
                                 after_get_table_data(@, parsed.data_sets)]
                   /\ UNCHANGED <<phase, outcome, page_urls>>
              ELSE Raise(s, self[s], phase[s], parsed.error)
    /\ UNCHANGED <<heap, source, markup, last, ops>>

\* The fetch of descriptor i fails for good: the whole batch fails.
WorkerFail(s, i) ==
    /\ InFanOut(s)
    /\ i \in 1..Len(page_urls)
    /\ ~pages_data[i].done
    /\ Raise(s, self[s], phase[s],
             [kind |-> "FetchError",
              arg |-> QueryString(page_urls[i].q) \o "&r=" \o ToString(page_urls[i].r)])
    /\ UNCHANGED <<heap, source, markup, last, ops, fetches, reordered>>

\* run_connector() has returned: lines 272-277 and the assignment of
\* self.data (lines 65, 96).
Publish(s) ==
    /\ InFanOut(s)
    /\ \A i \in 1..Len(pages_data) : pages_data[i].done
    /\ self' = [self EXCEPT ![s].data = Flatten(gathered(pages_data))]
    /\ phase' = [phase EXCEPT ![s] = "ready"]
    /\ outcome' = [outcome EXCEPT ![s] = Ok]
    /\ page_urls' = <<>>
    /\ pages_data' = <<>>
    /\ UNCHANGED <<heap, source, markup, last, ops, fetches, reordered>>

\* Screener.__len__ (line 133): int(self._rows); _rows of a constructed
\* object is the integer line 265 or line 94 stored.
__len__(me) == me._rows

(***************************************************************************)
(* The arguments the caller passes.  An argument set holds the defaults,   *)
(* every tuple that supplies one argument, and tuples that supply several. *)
(***************************************************************************)
InitDefaults ==
    [tickers |-> NoList, filters |-> NoList, rows |-> None, order |-> "",
     signal |-> "", table |-> "Overview"]

InitArgs ==
    {InitDefaults,
     [InitDefaults EXCEPT !.tickers = CallerTickers],
     [InitDefaults EXCEPT !.filters = CallerFilters],
     [InitDefaults EXCEPT !.order = "-price"],
     [InitDefaults EXCEPT !.signal = "n_majornews"],
     [InitDefaults EXCEPT !.table = "Performance"],
     [InitDefaults EXCEPT !.table = "Bogus"],
     [tickers |-> CallerTickers, filters |-> CallerFilters, rows |-> 3,
      order |-> "-price", signal |-> "n_majornews", table |-> "Performance"]}
    \cup {[InitDefaults EXCEPT !.rows = r] : r \in 1..MaxTotal}

CallArgs ==
    {NoArgs,
     [NoArgs EXCEPT !.tickers = <<"AMD">>],
     [NoArgs EXCEPT !.filters = <<"fa_div_high">>],
     [NoArgs EXCEPT !.order = "price"],
     [NoArgs EXCEPT !.signal = "ta_topgainers"],
     [NoArgs EXCEPT !.table = "Overview"],
     [NoArgs EXCEPT !.table = "Valuation"],
     [NoArgs EXCEPT !.table = "Bogus"],
     [NoArgs EXCEPT !.table = "Bogus", !.tickers = <<"AMD">>, !.filters = <<"fa_div_high">>],
     [tickers |-> <<"AMD", "WMT">>, filters |-> <<"fa_div_high">>, rows |-> 2,
      order |-> "price", signal |-> "ta_topgainers", table |-> "Valuation"]}
    \cup {[NoArgs EXCEPT !.rows = r] : r \in 1..MaxTotal}

\* Every table name, and one that is none, with the other arguments left out.
TableInitArgs ==
    {[InitDefaults EXCEPT !.table = t] : t \in TableNames \cup {"Bogus"}}

TableCallArgs ==
    {[NoArgs EXCEPT !.table = t] : t \in {NoTable} \cup TableNames \cup {"Bogus"}}

\* Two sessions: the caller's lists or none, and appended items or none.
PairInitArgs ==
    {[InitDefaults EXCEPT !.rows = 2],
     [InitDefaults EXCEPT !.tickers = CallerTickers, !.filters = CallerFilters,
                          !.rows = 2]}

PairCallArgs ==
    {NoArgs,
     [NoArgs EXCEPT !.tickers = <<"AMD">>, !.filters = <<"fa_div_high">>]}

Step(s, init_args, call_args) ==
    \/ \E a \in init_args : Construct(s, a)
    \/ \E a \in call_args : Call(s, a)
    \/ \E i \in 1..Len(page_urls) : Worker(s, i)
    \/ \E i \in 1..Len(page_urls) : WorkerFail(s, i)
    \/ Publish(s)

\* One session.
Next == Step(1, InitArgs, CallArgs)

Spec == Init /\ [][Next]_vars

\* One session, every table name.
NextTables == Step(1, TableInitArgs, TableCallArgs)

SpecTables == Init /\ [][NextTables]_vars

\* Two sessions of one caller.
NextPair == \E s \in Sessions : Step(s, PairInitArgs, PairCallArgs)

SpecPair == Init /\ [][NextPair]_vars

(***************************************************************************)
(* Properties.                                                             *)
(***************************************************************************)
\* The latest operation on s returned normally.
Succeeded(s) == phase[s] = "ready" /\ outcome[s] = Ok

\* The serial number of a record: the value of its leading column.
Serial(record) == int(record[1][2])

\* The table argument of the latest operation on s names no table.
InvalidTable(s) ==
    /\ last[s].op # "none"
    /\ last[s].args.table \notin TableNames
    /\ ~(last[s].op = "call" /\ last[s].args.table = NoTable)

\* C1: after a successful construction with row cap r (or none) against a
\* source of n > 0 rows, data holds exactly the records with the serial
\* numbers 1..c in ascending order, c = r if r is given and r <= n, else n.
C1_RowsUpToCap ==
    \A s \in Sessions :
        (Succeeded(s) /\ last[s].op = "init") =>
            LET r == last[s].args.rows
                n == TotalOf(self[s]._url)
                c == IF r # None /\ r <= n THEN r ELSE n
            IN  /\ n > 0
                /\ Len(self[s].data) = c
                /\ \A i \in 1..Len(self[s].data) : Serial(self[s].data[i]) = i

\* A construction whose cap ends in the middle of the last fetched page.
C1_Witness ==
    \E s \in Sessions :
        /\ Succeeded(s) /\ last[s].op = "init"
        /\ last[s].args.rows # None
        /\ last[s].args.rows < TotalOf(self[s]._url)
        /\ last[s].args.rows % RowsPerPage # 0
        /\ Len(self[s].data) = last[s].args.rows
        /\ Serial(self[s].data[Len(self[s].data)]) = last[s].args.rows

\* C2: when the first page reports total_rows = 0 the resolve fails with
\* NoResults carrying the query string of the request, after one fetch (the
\* first page) and without any worker handed to the Connector.
C2_NoResultsFirst ==
    \A s \in Sessions :
        (fetches[s].count >= 1 /\ TotalOf(fetches[s].first) = 0) =>
            /\ outcome[s] = NoResults(fetches[s].first)
            /\ fetches[s].count = 1
            /\ ~InFanOut(s)
            /\ Idle => (page_urls = <<>> /\ pages_data = <<>>)

\* A re-resolve that found no rows.
C2_Witness ==
    \E s \in Sessions :
        /\ last[s].op = "call"
        /\ outcome[s].kind = "NoResults"
        /\ TotalOf(fetches[s].first) = 0

\* C3: an operation whose table argument is outside the enumeration fails
\* with InvalidTableType naming the argument and makes no network request;
\* no other operation fails with InvalidTableType.
C3_InvalidTableType ==
    \A s \in Sessions :
        /\ InvalidTable(s) =>
              /\ outcome[s] = InvalidTableType(last[s].args.table)
              /\ fetches[s] = NoFetch
              /\ ~InFanOut(s)
        /\ (last[s].op # "none" /\ ~InvalidTable(s)) =>
              outcome[s].kind # "InvalidTableType"

\* A __call__ with an unknown table name has failed.
C3_Witness ==
    \E s \in Sessions :
        /\ last[s].op = "call"
        /\ last[s].args.table = "Bogus"
        /\ outcome[s] = InvalidTableType("Bogus")
        /\ fetches[s].count = 0

\* C4: the `v` parameter of the first-page request of an operation that
\* selects a table of the enumeration is the wire code of that table.
C4_WireCode ==
    \A s \in Sessions :
        (fetches[s].count >= 1 /\ last[s].args.table \in TableNames) =>
            fetches[s].first.v = _table_types[last[s].args.table]

\* The records of the pages of session s's query, each page fetched and parsed
\* on its own, in the order of the page descriptors.
InOrderData(s) ==
    LET me == self[s]
        urls == get_page_urls(RemotePage(me._url, 0, TotalOf(me._url), markup),
                              me._rows, me._url)
    IN  Flatten([i \in 1..Len(urls) |->
                    get_table_data(RemotePage(urls[i].q, urls[i].r,
                                              TotalOf(urls[i].q), markup),
                                   me.headers, me._rows).data_sets])

\* C5: whatever the order in which the page workers complete, the published
\* data is the concatenation of the per-page record lists in the order of the
\* page descriptors.
C5_OrderInvariance ==
    \A s \in Sessions : Succeeded(s) => self[s].data = InOrderData(s)

\* A resolve of several pages was published after a worker overtook another.
C5_Witness ==
    \E s \in Sessions :
        /\ Succeeded(s)
        /\ reordered
        /\ Len(self[s].data) > RowsPerPage
        /\ self[s].data = InOrderData(s)

\* C6: after a successful resolve the key sequence of every record is the
\* session's header list.  (Every data row of the remote source has as many
\* cells as the header row.)
C6_KeysAreHeaders ==
    \A s \in Sessions :
        Succeeded(s) =>
            \A i \in 1..Len(self[s].data) : Keys(self[s].data[i]) = self[s].headers

\* Records of a later page, read with headers of which one came from an icon.
C6_Witness ==
    \E s \in Sessions :
        /\ Succeeded(s)
        /\ self[s]._order # ""
        /\ Len(self[s].data) > RowsPerPage
        /\ Keys(self[s].data[Len(self[s].data)]) = self[s].headers
        /\ Len(self[s].headers) = 3

\* The pages needed for a row cap.
PagesFor(cap) == (cap + RowsPerPage - 1) \div RowsPerPage

\* C7: a resolve whose effective cap needs k pages fetches exactly k pages
\* and returns all the records up to the cap.
C7_FetchCount ==
    \A s \in Sessions :
        Succeeded(s) =>
            /\ fetches[s].count = PagesFor(self[s]._rows)
            /\ Len(self[s].data) = self[s]._rows

\* A resolve that ended with an exception the claims count as a failure of
\* the resolve (not of the argument check).
ResolveFailed(s) ==
    /\ phase[s] = "ready"
    /\ outcome[s].kind \in {"NoResults", "FetchError", "IndexError"}

\* C8: after a failed re-resolve data, headers and the row cap are what they
\* were before the call.
C8_AllOrNothing ==
    \A s \in Sessions :
        (last[s].op = "call" /\ ResolveFailed(s)) =>
            /\ self[s].data = last[s].before.self.data
            /\ self[s].headers = last[s].before.self.headers
            /\ self[s]._rows = last[s].before.self._rows

\* C9: a re-resolve of the same query with no arguments yields the headers
\* and data of the previous resolve, and two sessions constructed from equal
\* queries hold identical headers and data.
C9_Idempotence ==
    /\ \A s \in Sessions :
          (/\ Succeeded(s)
           /\ last[s].op = "call" /\ last[s].args = NoArgs
           /\ last[s].before.ok
           /\ self[s]._url = last[s].before.self._url) =>
              /\ self[s].headers = last[s].before.self.headers
              /\ self[s].data = last[s].before.self.data
    /\ \A s1, s2 \in Sessions :
          (/\ Succeeded(s1) /\ Succeeded(s2)
           /\ last[s1].op = "init" /\ last[s2].op = "init"
           /\ last[s1].args.rows = last[s2].args.rows
           /\ self[s1]._url = self[s2]._url) =>
              /\ self[s1].headers = self[s2].headers
              /\ self[s1].data = self[s2].data

\* A session re-resolved with no arguments holds non-empty data again.
C9_Witness ==
    \E s \in Sessions :
        /\ Succeeded(s)
        /\ last[s].op = "call" /\ last[s].args = NoArgs
        /\ last[s].before.ok
        /\ self[s]._url = last[s].before.self._url
        /\ self[s].data # <<>>
        /\ self[s].data = last[s].before.self.data

\* C10: after a successful __call__ the tickers and filters are the previous
\* ones followed by the supplied ones, each supplied scalar holds the supplied
\* value, and data is the result of resolving the merged query.
C10_Merge ==
    \A s \in Sessions :
        (Succeeded(s) /\ last[s].op = "call") =>
            LET a == last[s].args
                me == self[s]
            IN  /\ heap[me._tickers] = last[s].before.tickers \o a.tickers
                /\ heap[me._filters] = last[s].before.filters \o a.filters
                /\ a.order # "" => me._order = a.order
                /\ a.signal # "" => me._signal = a.signal
                /\ a.table # NoTable => me._table = _table_types[a.table]
                /\ a.rows # None => me._rows = a.rows
                /\ me._url = [v |-> me._table, t |-> join(heap[me._tickers]),
                              f |-> join(heap[me._filters]), o |-> me._order,
                              s |-> me._signal]
                /\ me.data = InOrderData(s)

\* C11: a session whose caller never gave a row cap returns, after a
\* re-resolve, all total_rows rows of the new result.
C11_CapIsInput ==
    \A s \in Sessions :
        (Succeeded(s) /\ last[s].op = "call" /\ last[s].requested = None) =>
            /\ Len(self[s].data) = TotalOf(self[s]._url)
            /\ \A i \in 1..Len(self[s].data) : Serial(self[s].data[i]) = i

\* A parse error that names the page (its request and row offset) and the
\* row index.
ParseError(url, row) ==
    [kind |-> "ParseError",
     arg |-> QueryString(url.q) \o "&r=" \o ToString(url.r) \o "#" \o ToString(row)]

\* C12: extracting a row with a cell that has neither text nor span gives a
\* parse error naming the page and the row (the defective row is the last one
\* of the dataset), never a raw lookup fault, and the error ends the resolve
\* with the previous data in place.
C12_StructuredParseError ==
    \A s \in Sessions :
        /\ outcome[s].kind # "IndexError"
        /\ InFanOut(s) =>
              \A i \in 1..Len(page_urls) :
                  LET url == page_urls[i]
                      page == RemotePage(url.q, url.r, TotalOf(url.q), markup)
                      parsed == get_table_data(page, self[s].headers, self[s]._rows)
                  IN  ~parsed.ok => parsed.error = ParseError(url, TotalOf(url.q))
        /\ outcome[s].kind = "ParseError" =>
              /\ ~InFanOut(s)
              /\ self[s].data = last[s].before.self.data

\* The page of descriptor i of the running fan-out.
PageOf(i) ==
    RemotePage(page_urls[i].q, page_urls[i].r, TotalOf(page_urls[i].q), markup)

\* The header list of s is the one the bootstrap step read from the first page.
HeadersPublished(s) ==
    self[s].headers =
        get_table_headers(RemotePage(self[s]._url, 0, TotalOf(self[s]._url), markup))

\* The row cap of s is the effective cap the page descriptors were computed for.
CapPublished(s) ==
    /\ self[s]._rows \in 1..TotalOf(self[s]._url)
    /\ page_urls = get_page_urls(RemotePage(self[s]._url, 0, TotalOf(self[s]._url), markup),
                                 self[s]._rows, self[s]._url)

\* Every filled slot holds the records of its own page, read with the
\* published header list and row cap.
SlotsFromPublished(s) ==
    \A i \in 1..Len(pages_data) :
        pages_data[i].done =>
            pages_data[i].data_sets =
                get_table_data(PageOf(i), self[s].headers, self[s]._rows).data_sets

\* What a worker returns does not depend on the session's row cap.
CapNotRead(s) ==
    \A i \in 1..Len(page_urls) : \A r \in 1..MaxTotal :
        get_table_data(PageOf(i), self[s].headers, r)
            = get_table_data(PageOf(i), self[s].headers, self[s]._rows)

\* A step inside a fan-out changes no session, no list and no descriptor, and
\* the step that ends the fan-out of a session that stays constructed leaves
\* its header list and row cap as they were.
WorkersWriteNothing ==
    \A s \in Sessions :
        /\ (InFanOut(s) /\ phase'[s] = phase[s]) =>
              /\ self' = self
              /\ heap' = heap
              /\ page_urls' = page_urls
              /\ \A i \in 1..Len(pages_data) : pages_data[i].done => pages_data'[i] = pages_data[i]
        /\ (InFanOut(s) /\ phase'[s] = "ready") =>
              /\ self'[s].headers = self[s].headers
              /\ self'[s]._rows = self[s]._rows

\* C13: during fan-out no worker writes state of the session or of another
\* worker, and the only session object a worker reads is the header list
\* published before dispatch, unchanged until the fan-out has ended.
C13_OnlyHeadersRead ==
    /\ [](\A s \in Sessions :
             InFanOut(s) => (HeadersPublished(s) /\ SlotsFromPublished(s) /\ CapNotRead(s)))
    /\ [][WorkersWriteNothing]_vars

\* C13 as amended: the session objects a worker reads are the header list and
\* the effective row cap, both published before dispatch and unchanged until
\* the fan-out has ended; no worker writes state of the session or of another
\* worker.
C13_HeadersAndCapRead ==
    /\ [](\A s \in Sessions :
             InFanOut(s) => (HeadersPublished(s) /\ CapPublished(s) /\ SlotsFromPublished(s)))
    /\ [][WorkersWriteNothing]_vars

\* A fan-out of several pages in which one worker has finished and another
\* has not, the finished one's page holding more rows than the cap lets it read.
C13_Witness ==
    \E s \in Sessions :
        /\ InFanOut(s)
        /\ HeadersPublished(s) /\ CapPublished(s)
        /\ \E i, j \in 1..Len(pages_data) :
              /\ pages_data[i].done /\ ~pages_data[j].done
              /\ Len(pages_data[i].data_sets) < Len(PageOf(i).trs) - 1
              /\ SlotsFromPublished(s)

\* C14: whenever a constructed session is at rest, after successful and
\* failed operations alike, len(screener) is the number of records in data.
C14_LenIsDataLength ==
    \A s \in Sessions :
        phase[s] = "ready" => __len__(self[s]) = Len(self[s].data)

\* C15: a __call__ that fails with InvalidTableType leaves tickers, filters,
\* table, order, signal and rows as they were before the call.
C15_InvalidTableFrame ==
    \A s \in Sessions :
        (last[s].op = "call" /\ outcome[s].kind = "InvalidTableType") =>
            LET me == self[s]
                old == last[s].before
            IN  /\ heap[me._tickers] = old.tickers
                /\ heap[me._filters] = old.filters
                /\ me._tickers = old.self._tickers
                /\ me._filters = old.self._filters
                /\ me._table = old.self._table
                /\ me._order = old.self._order
                /\ me._signal = old.self._signal
                /\ me._rows = old.self._rows

\* The items of the ticker and filter lists of a constructed session.
QueryLists(h, me) == <<h[me._tickers], h[me._filters]>>

\* C16: a __call__ on one session modifies neither the lists the caller
\* passed to a constructor nor the tickers and filters of another session.
C16_NoSharedLists ==
    [][\A s \in Sessions :
          (ops'[s] = ops[s] + 1 /\ last'[s].op = "call") =>
              /\ heap'[CallerTickers] = heap[CallerTickers]
              /\ heap'[CallerFilters] = heap[CallerFilters]
              /\ \A s2 \in Sessions \ {s} :
                    phase[s2] = "ready" =>
                        QueryLists(heap', self'[s2]) = QueryLists(heap, self[s2])]_vars

=============================================================================
